---- MODULE Spec2Model ----
(***************************************************************************)
(* Model of src/data/dialogue.py: the schema-validated records             *)
(* (DialogueScenario, Setting, Role, ConversationContext, Metadata,        *)
(* ConversationTurn, Dialogue) and the persistence helpers of Dialogue     *)
(* (save_to_json / load_from_json, save_to_pickle / load_from_pickle,      *)
(* save_batch_to_pickle / load_batch_from_pickle).                         *)
(*                                                                         *)
(* Python values are trees of nodes of one shape, so that any two values   *)
(* can be compared.  A file is a sequence of tokens: the tokens of a JSON  *)
(* text or the opcodes of a pickle stream.                                 *)
(***************************************************************************)
EXTENDS Integers, Sequences, FiniteSets, TLC

VARIABLES fs, mem, call, handles, lastSave, callers

vars == <<fs, mem, call, handles, lastSave, callers>>

(***************************************************************************)
(* Bounds of the model.                                                    *)
(***************************************************************************)
MaxBatch == 2

(***************************************************************************)
(* Python values.                                                          *)
(***************************************************************************)
Node(t, s, n, keys, items) ==
    [t |-> t, s |-> s, n |-> n, keys |-> keys, items |-> items]

None == Node("None", "", 0, <<>>, <<>>)
PyStr(x) == Node("str", x, 0, <<>>, <<>>)
PyInt(x) == Node("int", "", x, <<>>, <<>>)
PyList(xs) == Node("list", "", 0, <<>>, xs)
PyDict(ks, vs) == Node("dict", "", 0, ks, vs)
Inst(cls, ks, vs) == Node("inst", cls, 0, ks, vs)
\* a value pickle cannot serialize (a lambda, an open file, ...)
Func == Node("function", "<lambda>", 0, <<>>, <<>>)
\* a raised exception of class cls
Exc(cls, msg) == Node("exception", cls, 0, <<>>, <<PyStr(msg)>>)

IsExc(v) == v.t = "exception"
IsInst(v, cls) == v.t = "inst" /\ v.s = cls

HasKey(d, k) == \E i \in 1..Len(d.keys) : d.keys[i] = k
Get(d, k) == d.items[CHOOSE i \in 1..Len(d.keys) : d.keys[i] = k]

RECURSIVE Flatten(_)
Flatten(ss) == IF ss = <<>> THEN <<>> ELSE Head(ss) \o Flatten(Tail(ss))

(***************************************************************************)
(* Field declarations.  A field is Field(name, type, required, default);   *)
(* a type is Ty(kind, cls, optional) with kind "str", "int", "list" (of    *)
(* cls, or of str when cls is "") or "model" (the record class cls).       *)
(***************************************************************************)
Ty(k, cls, opt) == [k |-> k, cls |-> cls, opt |-> opt]
Field(name, ty, req, dflt) == [name |-> name, ty |-> ty, req |-> req, dflt |-> dflt]

TStr == Ty("str", "", FALSE)
TInt == Ty("int", "", FALSE)
TOptStr == Ty("str", "", TRUE)
TListStr == Ty("list", "", FALSE)
TModel(cls) == Ty("model", cls, FALSE)
Required(name, ty) == Field(name, ty, TRUE, None)

\* mutant: custom_prompt defaults to None
DialogueScenarioFields_none ==
    << Required("dialogue_type", TStr),
       Required("temporal_context", TStr),
       Required("spatial_context", TStr),
       Required("cultural_background", TStr),
       Field("dialogue_language", TStr, FALSE, PyStr("English")),
       Field("custom_prompt", TOptStr, FALSE, None) >>

DialogueScenarioFields ==
    << Required("dialogue_type", TStr),
       Required("temporal_context", TStr),
       Required("spatial_context", TStr),
       Required("cultural_background", TStr),
       Field("dialogue_language", TStr, FALSE, PyStr("English")),
       Field("custom_prompt", TOptStr, FALSE, PyStr("")) >>

\* model_config = {"json_schema_extra": {"exclude": [...]}}
DialogueScenarioExclude == <<"language", "custom_prompt">>

SettingFields ==
    << Required("location", TStr),
       Required("time_of_day", TStr),
       Required("context", TStr),
       Required("atmosphere", TStr) >>

\* mutant: age is Optional[int] with default None
RoleFields_optional_age ==
    << Required("name", TStr),
       Required("gender", TStr),
       Field("age", Ty("int", "", TRUE), FALSE, None),
       Required("occupation", TStr),
       Required("nationality", TStr),
       Required("personality_traits", TListStr),
       Required("relationship_context", TStr),
       Required("self_introduction", TStr) >>

RoleFields ==
    << Required("name", TStr),
       Required("gender", TStr),
       Required("age", TInt),
       Required("occupation", TStr),
       Required("nationality", TStr),
       Required("personality_traits", TListStr),
       Required("relationship_context", TStr),
       Required("self_introduction", TStr) >>

ConversationContextFields ==
    << Required("type", TStr),
       Required("main_topic", TStr),
       Required("relationship_dynamic", TStr),
       Required("emotional_tone", TStr),
       Required("expected_duration", TStr),
       Required("expected_turns", TInt),
       Required("key_points", TListStr) >>

MetadataFields ==
    << Required("setting", TModel("Setting")),
       Required("role_1", TModel("Role")),
       Required("role_2", TModel("Role")),
       Required("conversation_context", TModel("ConversationContext")) >>

ConversationTurnFields ==
    << Required("speaker_id", TStr),
       Required("speaker_name", TStr),
       Required("text", TStr),
       Required("emotion", TStr),
       Required("speech_rate", TStr),
       Required("pause_after", TStr),
       Required("tts_prompt", TStr) >>

ConversationFields ==
    << Required("utterances", Ty("list", "ConversationTurn", FALSE)) >>

\* data.evaluation.ConsistencyEvaluation: an externally computed score
ConsistencyEvaluationFields ==
    << Required("score", TInt) >>

\* mutant: script defaults to the empty string
DialogueFields_script ==
    << Field("scenario", Ty("model", "DialogueScenario", TRUE), FALSE, None),
       Field("metadata", Ty("model", "Metadata", TRUE), FALSE, None),
       Field("script", TOptStr, FALSE, PyStr("")),
       Field("conversation", Ty("list", "ConversationTurn", TRUE), FALSE, None),
       Field("consistency_evaluation",
             Ty("model", "ConsistencyEvaluation", TRUE), FALSE, None) >>

DialogueFields ==
    << Field("scenario", Ty("model", "DialogueScenario", TRUE), FALSE, None),
       Field("metadata", Ty("model", "Metadata", TRUE), FALSE, None),
       Field("script", TOptStr, FALSE, None),
       Field("conversation", Ty("list", "ConversationTurn", TRUE), FALSE, None),
       Field("consistency_evaluation",
             Ty("model", "ConsistencyEvaluation", TRUE), FALSE, None) >>

FieldsOf(cls) ==
    CASE cls = "DialogueScenario" -> DialogueScenarioFields
      [] cls = "Setting" -> SettingFields
      [] cls = "Role" -> RoleFields
      [] cls = "ConversationContext" -> ConversationContextFields
      [] cls = "Metadata" -> MetadataFields
      [] cls = "ConversationTurn" -> ConversationTurnFields
      [] cls = "Conversation" -> ConversationFields
      [] cls = "ConsistencyEvaluation" -> ConsistencyEvaluationFields
      [] cls = "Dialogue" -> DialogueFields

FieldNames(fields) == [i \in 1..Len(fields) |-> fields[i].name]

(***************************************************************************)
(* Validated construction (pydantic): a required field must be present,    *)
(* a str field takes a str only, an int field takes an int or a decimal    *)
(* numeral, an Optional field also takes None, a list is validated item by *)
(* item, a nested record is an instance of its class or a mapping that     *)
(* validates as one.  Unknown keys are ignored.                            *)
(***************************************************************************)
Numerals == [s \in {"30", "34"} |-> IF s = "30" THEN 30 ELSE 34]

ValidationError(msg) == Exc("ValidationError", msg)

RECURSIVE model_validate(_, _), validate(_, _)
validate(ty, v) ==
    IF ty.opt /\ v.t = "None" THEN v
    ELSE CASE ty.k = "str" ->
                IF v.t = "str" THEN v ELSE ValidationError("string_type")
           [] ty.k = "int" ->
                IF v.t = "int" THEN v
                ELSE IF v.t = "str" /\ v.s \in DOMAIN Numerals
                     THEN PyInt(Numerals[v.s])
                     ELSE ValidationError("int_parsing")
           [] ty.k = "list" ->
                IF v.t # "list" THEN ValidationError("list_type")
                ELSE LET elem == IF ty.cls = "" THEN TStr ELSE TModel(ty.cls)
                         xs == [i \in 1..Len(v.items) |-> validate(elem, v.items[i])]
                     IN  IF \E i \in 1..Len(xs) : IsExc(xs[i])
                         THEN ValidationError("list_item")
                         ELSE PyList(xs)
           [] ty.k = "model" -> model_validate(ty.cls, v)

model_validate(cls, v) ==
    IF IsInst(v, cls) THEN v
    ELSE IF v.t # "dict" THEN ValidationError("model_type")
    ELSE LET fields == FieldsOf(cls)
             vals == [i \in 1..Len(fields) |->
                        IF HasKey(v, fields[i].name)
                        THEN validate(fields[i].ty, Get(v, fields[i].name))
                        ELSE IF fields[i].req THEN ValidationError("missing")
                        ELSE fields[i].dflt]
         IN  IF \E i \in 1..Len(vals) : IsExc(vals[i])
             THEN ValidationError(cls)
             ELSE Inst(cls, FieldNames(fields), vals)

\* the constructors, applied to keyword arguments
DialogueScenario(kwargs) == model_validate("DialogueScenario", kwargs)
Setting(kwargs) == model_validate("Setting", kwargs)
Role(kwargs) == model_validate("Role", kwargs)
ConversationContext(kwargs) == model_validate("ConversationContext", kwargs)
Metadata(kwargs) == model_validate("Metadata", kwargs)
ConversationTurn(kwargs) == model_validate("ConversationTurn", kwargs)
ConsistencyEvaluation(kwargs) == model_validate("ConsistencyEvaluation", kwargs)
Dialogue(kwargs) == model_validate("Dialogue", kwargs)

(***************************************************************************)
(* Structured text.  A JSON text is a sequence of tokens; pretty mode puts *)
(* a newline-and-indent token before every item and closing bracket.       *)
(***************************************************************************)
Tok(k, s, n) == [k |-> k, s |-> s, n |-> n]
P(c) == Tok("punct", c, 0)
Ws(depth) == Tok("ws", "", depth)

\* to_dict: a record becomes a mapping, recursively
RECURSIVE to_dict(_)
to_dict(v) ==
    CASE v.t = "inst" ->
            PyDict(v.keys, [i \in 1..Len(v.items) |-> to_dict(v.items[i])])
      [] v.t = "list" ->
            PyList([i \in 1..Len(v.items) |-> to_dict(v.items[i])])
      [] OTHER -> v

RECURSIVE dumps(_, _, _)
dumps(v, pretty, depth) ==
    LET nl(d) == IF pretty THEN <<Ws(d)>> ELSE <<>>
        sep(i) == IF i = 1 THEN <<>> ELSE <<P(",")>>
    IN  CASE v.t = "None" -> <<Tok("null", "", 0)>>
          [] v.t = "str" -> <<Tok("string", v.s, 0)>>
          [] v.t = "int" -> <<Tok("number", "", v.n)>>
          [] v.t = "list" ->
                IF v.items = <<>> THEN <<P("["), P("]")>>
                ELSE <<P("[")>>
                     \o Flatten([i \in 1..Len(v.items) |->
                            sep(i) \o nl(depth + 1)
                            \o dumps(v.items[i], pretty, depth + 1)])
                     \o nl(depth) \o <<P("]")>>
          [] v.t = "dict" ->
                IF v.items = <<>> THEN <<P("{"), P("}")>>
                ELSE <<P("{")>>
                     \o Flatten([i \in 1..Len(v.items) |->
                            sep(i) \o nl(depth + 1)
                            \o <<Tok("string", v.keys[i], 0), P(":")>>
                            \o dumps(v.items[i], pretty, depth + 1)])
                     \o nl(depth) \o <<P("}")>>

\* to_json(pretty): the text of the record's mapping
to_json(self, pretty) == dumps(to_dict(self), pretty, 0)

(* The parser: a result is [ok, v, i], the value read and the position     *)
(* after it; whitespace is skipped between tokens.                         *)
Parsed(v, i) == [ok |-> TRUE, v |-> v, i |-> i]
NoParse == [ok |-> FALSE, v |-> None, i |-> 0]

RECURSIVE SkipWs(_, _)
SkipWs(toks, i) ==
    IF i <= Len(toks) /\ toks[i].k = "ws" THEN SkipWs(toks, i + 1) ELSE i

IsP(toks, i, c) == i <= Len(toks) /\ toks[i] = P(c)

RECURSIVE ParseValue(_, _), ParseItems(_, _, _), ParseMembers(_, _, _, _)
ParseValue(toks, i0) ==
    LET i == SkipWs(toks, i0)
    IN  IF i > Len(toks) THEN NoParse
        ELSE CASE toks[i].k = "null" -> Parsed(None, i + 1)
               [] toks[i].k = "string" -> Parsed(PyStr(toks[i].s), i + 1)
               [] toks[i].k = "number" -> Parsed(PyInt(toks[i].n), i + 1)
               [] toks[i] = P("[") ->
                    LET j == SkipWs(toks, i + 1)
                    IN  IF IsP(toks, j, "]") THEN Parsed(PyList(<<>>), j + 1)
                        ELSE ParseItems(toks, j, <<>>)
               [] toks[i] = P("{") ->
                    LET j == SkipWs(toks, i + 1)
                    IN  IF IsP(toks, j, "}") THEN Parsed(PyDict(<<>>, <<>>), j + 1)
                        ELSE ParseMembers(toks, j, <<>>, <<>>)
               [] OTHER -> NoParse

ParseItems(toks, i, acc) ==
    LET r == ParseValue(toks, i)
        j == SkipWs(toks, r.i)
    IN  IF ~r.ok THEN NoParse
        ELSE IF IsP(toks, j, ",") THEN ParseItems(toks, j + 1, Append(acc, r.v))
        ELSE IF IsP(toks, j, "]") THEN Parsed(PyList(Append(acc, r.v)), j + 1)
        ELSE NoParse

ParseMembers(toks, i0, ks, vs) ==
    LET i == SkipWs(toks, i0)
        c == SkipWs(toks, i + 1)
        r == ParseValue(toks, c + 1)
        j == SkipWs(toks, r.i)
    IN  IF ~(i <= Len(toks) /\ toks[i].k = "string") THEN NoParse
        ELSE IF ~IsP(toks, c, ":") THEN NoParse
        ELSE IF ~r.ok THEN NoParse
        ELSE IF IsP(toks, j, ",")
             THEN ParseMembers(toks, j + 1, Append(ks, toks[i].s), Append(vs, r.v))
        ELSE IF IsP(toks, j, "}")
             THEN Parsed(PyDict(Append(ks, toks[i].s), Append(vs, r.v)), j + 1)
        ELSE NoParse

\* json.loads: one value, then nothing but whitespace
loads(toks) ==
    LET r == ParseValue(toks, 1)
    IN  IF r.ok /\ SkipWs(toks, r.i) = Len(toks) + 1 THEN r ELSE NoParse

\* from_json(text): parse, then validate as cls
from_json(cls, text) ==
    LET r == loads(text)
    IN  IF ~r.ok THEN Exc("JSONDecodeError", "malformed")
        ELSE model_validate(cls, r.v)

(***************************************************************************)
(* Binary encoding (pickle): a stream of opcodes run by a stack machine.   *)
(* An instance is GLOBAL cls, NEWOBJ, its state as a dict, BUILD; a list   *)
(* or dict is MARK, its parts, LIST or DICT; the stream ends with STOP.    *)
(***************************************************************************)
Op(k) == Tok(k, "", 0)

RECURSIVE Picklable(_)
Picklable(v) ==
    /\ v.t \in {"None", "str", "int", "list", "dict", "inst"}
    /\ \A i \in 1..Len(v.items) : Picklable(v.items[i])

RECURSIVE save(_)
save(v) ==
    CASE v.t = "None" -> <<Op("NONE")>>
      [] v.t = "str" -> <<Tok("BINUNICODE", v.s, 0)>>
      [] v.t = "int" -> <<Tok("BININT", "", v.n)>>
      [] v.t = "list" ->
            <<Op("MARK")>>
            \o Flatten([i \in 1..Len(v.items) |-> save(v.items[i])])
            \o <<Op("LIST")>>
      [] v.t = "dict" ->
            <<Op("MARK")>>
            \o Flatten([i \in 1..Len(v.items) |->
                   <<Tok("BINUNICODE", v.keys[i], 0)>> \o save(v.items[i])])
            \o <<Op("DICT")>>
      [] v.t = "inst" ->
            <<Tok("GLOBAL", v.s, 0), Op("NEWOBJ")>>
            \o save(PyDict(v.keys, v.items))
            \o <<Op("BUILD")>>

\* pickle.dump(obj, f): the bytes written, or the exception raised
pickle_dump(obj) ==
    IF Picklable(obj)
    THEN [ok |-> TRUE, data |-> <<Op("PROTO")>> \o save(obj) \o <<Op("STOP")>>,
          exc |-> None]
    ELSE [ok |-> FALSE, data |-> <<>>, exc |-> Exc("PicklingError", "cannot pickle")]

Mark == Node("mark", "", 0, <<>>, <<>>)
Class(cls) == Node("class", cls, 0, <<>>, <<>>)
UnpicklingError == Exc("UnpicklingError", "invalid data")

HasMark(stack) == \E i \in 1..Len(stack) : stack[i] = Mark
LastMark(stack) ==
    CHOOSE i \in 1..Len(stack) :
        stack[i] = Mark /\ \A j \in (i + 1)..Len(stack) : stack[j] # Mark

RECURSIVE run(_, _, _)
run(ops, i, stack) ==
    IF i > Len(ops) THEN Exc("EOFError", "ran out of input")
    ELSE
    LET op == ops[i]
        n == Len(stack)
        push(x) == run(ops, i + 1, Append(stack, x))
        m == LastMark(stack)
        below == SubSeq(stack, 1, m - 1)
        above == SubSeq(stack, m + 1, n)
    IN  CASE op.k = "PROTO" -> run(ops, i + 1, stack)
          [] op.k = "NONE" -> push(None)
          [] op.k = "BINUNICODE" -> push(PyStr(op.s))
          [] op.k = "BININT" -> push(PyInt(op.n))
          [] op.k = "MARK" -> push(Mark)
          [] op.k = "GLOBAL" -> push(Class(op.s))
          [] op.k = "LIST" ->
                IF ~HasMark(stack) THEN UnpicklingError
                ELSE run(ops, i + 1, Append(below, PyList(above)))
          [] op.k = "DICT" ->
                IF ~HasMark(stack) \/ Len(above) % 2 # 0 THEN UnpicklingError
                ELSE run(ops, i + 1, Append(below,
                        PyDict([j \in 1..(Len(above) \div 2) |-> above[2 * j - 1].s],
                               [j \in 1..(Len(above) \div 2) |-> above[2 * j]])))
          [] op.k = "NEWOBJ" ->
                IF n = 0 \/ stack[n].t # "class" THEN UnpicklingError
                ELSE run(ops, i + 1,
                         Append(SubSeq(stack, 1, n - 1), Inst(stack[n].s, <<>>, <<>>)))
          [] op.k = "BUILD" ->
                IF n < 2 \/ stack[n].t # "dict" \/ stack[n - 1].t # "inst"
                THEN UnpicklingError
                ELSE run(ops, i + 1,
                         Append(SubSeq(stack, 1, n - 2),
                                Inst(stack[n - 1].s, stack[n].keys, stack[n].items)))
          [] op.k = "STOP" -> IF n = 0 THEN UnpicklingError ELSE stack[n]
          [] OTHER -> UnpicklingError

\* pickle.load(f): the value at the top of the stack at STOP, whatever it is
pickle_load(data) == run(data, 1, <<>>)

(***************************************************************************)
(* Sample field values and keyword arguments.                              *)
(***************************************************************************)
ScenarioKeys ==
    <<"dialogue_type", "temporal_context", "spatial_context", "cultural_background">>
ScenarioVals ==
    <<PyStr("interview"), PyStr("modern day"), PyStr("urban"), PyStr("Global")>>
ScenarioArgs == PyDict(ScenarioKeys, ScenarioVals)

RoleKeys ==
    <<"name", "gender", "age", "occupation", "nationality",
      "personality_traits", "relationship_context", "self_introduction">>
RoleArgs(name, age, traits) ==
    PyDict(RoleKeys,
           <<PyStr(name), PyStr("F"), age, PyStr("Doctor"), PyStr("Spanish"),
             PyList(traits), PyStr("colleague"), PyStr("...")>>)
AnaArgs == RoleArgs("Ana", PyInt(34), <<PyStr("calm"), PyStr("direct")>>)
BenArgs == RoleArgs("Ben", PyInt(30), <<PyStr("direct"), PyStr("calm"), PyStr("direct")>>)

\* a mapping without the key k
Without(d, k) ==
    LET keep == SelectSeq([i \in 1..Len(d.keys) |-> i], LAMBDA i : d.keys[i] # k)
    IN  PyDict([j \in 1..Len(keep) |-> d.keys[keep[j]]],
               [j \in 1..Len(keep) |-> d.items[keep[j]]])
\* a mapping with key k set to v (appended when absent)
With(d, k, v) ==
    IF HasKey(d, k)
    THEN PyDict(d.keys, [i \in 1..Len(d.keys) |-> IF d.keys[i] = k THEN v ELSE d.items[i]])
    ELSE PyDict(Append(d.keys, k), Append(d.items, v))

SettingArgs ==
    PyDict(<<"location", "time_of_day", "context", "atmosphere">>,
           <<PyStr("clinic"), PyStr("morning"), PyStr("handover"), PyStr("calm")>>)
ContextArgs ==
    PyDict(<<"type", "main_topic", "relationship_dynamic", "emotional_tone",
             "expected_duration", "expected_turns", "key_points">>,
           <<PyStr("interview"), PyStr("rota"), PyStr("peers"), PyStr("neutral"),
             PyStr("short"), PyInt(2),
             PyList(<<PyStr("greet"), PyStr("plan"), PyStr("greet")>>)>>)
MetadataArgs ==
    PyDict(<<"setting", "role_1", "role_2", "conversation_context">>,
           <<SettingArgs, AnaArgs, BenArgs, ContextArgs>>)

TurnArgs(id, name, text) ==
    PyDict(<<"speaker_id", "speaker_name", "text", "emotion", "speech_rate",
             "pause_after", "tts_prompt">>,
           <<PyStr(id), PyStr(name), PyStr(text), PyStr("neutral"), PyStr("medium"),
             PyStr("short"), PyStr("plainly")>>)
Turn1 == TurnArgs("role_1", "Ana", "Hello.")
Turn2 == TurnArgs("role_2", "Ben", "Hi.")

ConversationChoices ==
    { PyList(<<>>), PyList(<<Turn1, Turn2>>), PyList(<<Turn2, Turn1>>) }

\* the keyword arguments that populate the fields named in S
DialogueArgs(S, conv) ==
    LET all == << <<"scenario", ScenarioArgs>>, <<"metadata", MetadataArgs>>,
                  <<"script", PyStr("outline")>>, <<"conversation", conv>>,
                  <<"consistency_evaluation", PyDict(<<"score">>, <<PyInt(7)>>)>> >>
        sel == SelectSeq(all, LAMBDA kv : kv[1] \in S)
    IN  PyDict([i \in 1..Len(sel) |-> sel[i][1]], [i \in 1..Len(sel) |-> sel[i][2]])

\* the same keyword arguments given in the opposite order
Reversed(d) ==
    PyDict([i \in 1..Len(d.keys) |-> d.keys[Len(d.keys) + 1 - i]],
           [i \in 1..Len(d.keys) |-> d.items[Len(d.keys) + 1 - i]])

DialogueFieldNames ==
    {"scenario", "metadata", "script", "conversation", "consistency_evaluation"}

\* every subset of the fields, two more conversations (the turns in the other
\* order, and no turn at all), and all five fields given last to first
DialogueKwargs ==
    { DialogueArgs(S, PyList(<<Turn1, Turn2>>)) : S \in SUBSET DialogueFieldNames }
    \cup { DialogueArgs({"conversation"}, conv) : conv \in ConversationChoices }
    \cup { Reversed(DialogueArgs(DialogueFieldNames, PyList(<<Turn1, Turn2>>))) }

RoleKwargs ==
    { AnaArgs, BenArgs, Without(AnaArgs, "age"),
      With(AnaArgs, "age", PyStr("thirty")), With(AnaArgs, "age", PyStr("30")),
      With(AnaArgs, "age", None), With(AnaArgs, "name", PyInt(7)) }

ScenarioKwargs ==
    { ScenarioArgs,
      With(ScenarioArgs, "dialogue_language", PyStr("Chinese")),
      With(ScenarioArgs, "custom_prompt", PyStr("be brief")),
      With(ScenarioArgs, "custom_prompt", None),
      With(With(ScenarioArgs, "dialogue_language", PyStr("Chinese")),
           "custom_prompt", PyStr("be brief")),
      Without(ScenarioArgs, "dialogue_type"),
      With(ScenarioArgs, "dialogue_language", None) }

(***************************************************************************)
(* The file system and the callers.                                        *)
(***************************************************************************)
AllCallers == {1, 2}
GoodPath == "out/dialogue"
\* a path in a directory that does not exist: it can be neither read nor written
NoDirPath == "nodir/dialogue"
Paths == {GoodPath, NoDirPath}
Writable(p) == p # NoDirPath

NoFile == [exists |-> FALSE, data |-> <<>>]
NoSave == [op |-> "none", pretty |-> FALSE, arg |-> None, by |-> 0,
           ok |-> FALSE, ov |-> FALSE]

Idle == [pc |-> "idle", op |-> "none", path |-> "", pretty |-> FALSE, arg |-> None,
         val |-> None, exc |-> None, att |-> 0, ov |-> FALSE, status |-> "none"]

SaveOps == {"save_to_json", "save_to_pickle", "save_batch_to_pickle"}
LoadOps == {"load_from_json", "load_from_pickle", "load_batch_from_pickle"}

\* the lists a caller may pass to save_batch_to_pickle
RECURSIVE SeqsUpTo(_, _)
SeqsUpTo(S, n) ==
    IF n = 0 THEN {<<>>}
    ELSE LET shorter == SeqsUpTo(S, n - 1)
         IN  shorter \cup {Append(q, x) : q \in {r \in shorter : Len(r) = n - 1}, x \in S}
\* the lists caller c may pass: lists of the Dialogues it has at hand, and a
\* list holding a value that is none
Held(c) == ({mem[c].self} \cup mem[c].others) \ {None}
BatchLists(c) ==
    {PyList(q) : q \in SeqsUpTo(Held(c), MaxBatch)}
    \cup {PyList(<<d, Func>>) : d \in Held(c)}

At(c, op, pc) == call[c].pc = pc /\ call[c].op = op

\* a call begins: the arguments are bound, nothing is opened yet
Enter(c, op, p, pretty, arg) ==
    /\ call[c].pc = "idle"
    /\ call' = [call EXCEPT ![c] = [Idle EXCEPT !.pc = "open", !.op = op, !.path = p,
                                                !.pretty = pretty, !.arg = arg]]
    /\ UNCHANGED <<fs, mem, handles, lastSave, callers>>

\* mutant: the file is opened without truncation, as with mode "r+"
Truncated_keep(p) == [exists |-> TRUE, data |-> fs[p].data]
\* the file after open(p, "w"): created, or cut to length 0
Truncated(p) == [exists |-> TRUE, data |-> <<>>]

OtherWriter(c, p) ==
    \E o \in AllCallers \ {c} :
        call[o].pc \in {"body", "exit"} /\ call[o].path = p /\ call[o].op \in SaveOps

\* open(file_path, mode): "w"/"wb" creates or truncates the file, "r"/"rb"
\* needs it to exist; a failure raises before the with-block is entered
open(c, mode) ==
    LET p == call[c].path
        can == IF mode = "w" THEN Writable(p) ELSE fs[p].exists
        err == IF mode = "r" \/ ~Writable(p)
               THEN Exc("FileNotFoundError", p) ELSE Exc("PermissionError", p)
    IN  /\ call[c].pc = "open"
        /\ IF can
           THEN /\ handles' = [handles EXCEPT ![c] = @ + 1]
                /\ fs' = IF mode = "w" THEN [fs EXCEPT ![p] = Truncated(p)]
                         ELSE fs
                /\ lastSave' = IF mode = "w"
                               THEN [lastSave EXCEPT ![p] =
                                        [op |-> call[c].op, pretty |-> call[c].pretty,
                                         arg |-> call[c].arg, by |-> c, ok |-> FALSE,
                                         ov |-> OtherWriter(c, p)]]
                               ELSE lastSave
                /\ call' = [o \in AllCallers |->
                              IF o = c
                              THEN [call[c] EXCEPT !.pc = "body", !.att = @ + 1,
                                                   !.ov = mode = "w" /\ OtherWriter(c, p)]
                              ELSE IF mode = "w" /\ call[o].path = p
                                      /\ call[o].pc \in {"body", "exit"}
                                      /\ call[o].op \in SaveOps
                                   THEN [call[o] EXCEPT !.ov = TRUE]
                                   ELSE call[o]]
           ELSE /\ call' = [call EXCEPT ![c] = [@ EXCEPT !.pc = "idle", !.att = @ + 1,
                                                         !.exc = err, !.status = "raise"]]
                /\ UNCHANGED <<fs, handles, lastSave>>
        /\ UNCHANGED <<mem, callers>>

\* data written at the start of the file through a handle opened at offset 0
Overlay(old, data) ==
    data \o SubSeq(old, Len(data) + 1, Len(old))

\* the body of a save: r is the serialization or the exception it raised
write(c, r) ==
    LET p == call[c].path
    IN  /\ call[c].pc = "body"
        /\ IF r.ok
           THEN /\ fs' = [fs EXCEPT ![p].data = Overlay(@, r.data)]
                /\ lastSave' = [lastSave EXCEPT ![p] =
                                   [op |-> call[c].op, pretty |-> call[c].pretty,
                                    arg |-> call[c].arg, by |-> c, ok |-> TRUE,
                                    ov |-> call[c].ov]]
                /\ call' = [call EXCEPT ![c].pc = "exit"]
           ELSE /\ call' = [call EXCEPT ![c].pc = "exit", ![c].exc = r.exc]
                /\ UNCHANGED <<fs, lastSave>>
        /\ UNCHANGED <<mem, handles, callers>>

\* mutant: the load catches the exception and returns None
read_or_none(c, v) ==
    /\ call[c].pc = "body"
    /\ call' = IF IsExc(v) THEN [call EXCEPT ![c].pc = "exit"]
               ELSE [call EXCEPT ![c].pc = "exit", ![c].val = v]
    /\ UNCHANGED <<fs, mem, handles, lastSave, callers>>

\* the body of a load: v is the value built from the file or the exception raised
read(c, v) ==
    /\ call[c].pc = "body"
    /\ call' = IF IsExc(v) THEN [call EXCEPT ![c].pc = "exit", ![c].exc = v]
               ELSE [call EXCEPT ![c].pc = "exit", ![c].val = v]
    /\ UNCHANGED <<fs, mem, handles, lastSave, callers>>

\* mutant: no with-block, f.close() follows the body and an exception skips it
with_exit_leak(c) ==
    /\ call[c].pc = "exit"
    /\ handles' = IF call[c].exc = None THEN [handles EXCEPT ![c] = @ - 1] ELSE handles
    /\ call' = [call EXCEPT ![c].pc = "idle",
                            ![c].status = IF call[c].exc = None THEN "ok" ELSE "raise"]
    /\ UNCHANGED <<fs, mem, lastSave, callers>>

\* leaving the with-block, normally or by an exception: the file is closed,
\* then the value is returned or the exception goes on to the caller
with_exit(c) ==
    /\ call[c].pc = "exit"
    /\ handles' = [handles EXCEPT ![c] = @ - 1]
    /\ call' = [call EXCEPT ![c].pc = "idle",
                            ![c].status = IF call[c].exc = None THEN "ok" ELSE "raise"]
    /\ UNCHANGED <<fs, mem, lastSave, callers>>

Serialized(text) == [ok |-> TRUE, data |-> text, exc |-> None]

save_to_json(c) ==
    \/ \E p \in Paths, pretty \in BOOLEAN :
           mem[c].self # None /\ Enter(c, "save_to_json", p, pretty, mem[c].self)
    \/ At(c, "save_to_json", "open") /\ open(c, "w")
    \/ At(c, "save_to_json", "body")
         /\ write(c, Serialized(to_json(call[c].arg, call[c].pretty)))
    \/ At(c, "save_to_json", "exit") /\ with_exit(c)

\* the text up to the first line break
FirstLine(text) ==
    IF \E i \in 1..Len(text) : text[i].k = "ws"
    THEN SubSeq(text, 1, (CHOOSE i \in 1..Len(text) :
                            text[i].k = "ws" /\ \A j \in 1..(i - 1) : text[j].k # "ws") - 1)
    ELSE text

\* mutant: f.readline() in place of f.read()
load_from_json_readline(c) ==
    \/ \E p \in Paths : Enter(c, "load_from_json", p, FALSE, None)
    \/ At(c, "load_from_json", "open") /\ open(c, "r")
    \/ At(c, "load_from_json", "body")
         /\ read(c, from_json("Dialogue", FirstLine(fs[call[c].path].data)))
    \/ At(c, "load_from_json", "exit") /\ with_exit(c)

load_from_json(c) ==
    \/ \E p \in Paths : Enter(c, "load_from_json", p, FALSE, None)
    \/ At(c, "load_from_json", "open") /\ open(c, "r")
    \/ At(c, "load_from_json", "body")
         /\ read(c, from_json("Dialogue", fs[call[c].path].data))
    \/ At(c, "load_from_json", "exit") /\ with_exit(c)

save_to_pickle(c) ==
    \/ \E p \in Paths : mem[c].self # None /\ Enter(c, "save_to_pickle", p, FALSE, mem[c].self)
    \/ At(c, "save_to_pickle", "open") /\ open(c, "w")
    \/ At(c, "save_to_pickle", "body") /\ write(c, pickle_dump(call[c].arg))
    \/ At(c, "save_to_pickle", "exit") /\ with_exit(c)

load_from_pickle(c) ==
    \/ \E p \in Paths : Enter(c, "load_from_pickle", p, FALSE, None)
    \/ At(c, "load_from_pickle", "open") /\ open(c, "r")
    \/ At(c, "load_from_pickle", "body") /\ read(c, pickle_load(fs[call[c].path].data))
    \/ At(c, "load_from_pickle", "exit") /\ with_exit(c)

\* mutant: one pickle.dump per Dialogue in place of one for the list
dump_each(dialogues) ==
    IF Picklable(dialogues)
    THEN [ok |-> TRUE, exc |-> None,
          data |-> Flatten([i \in 1..Len(dialogues.items) |->
                              pickle_dump(dialogues.items[i]).data])]
    ELSE pickle_dump(dialogues)

save_batch_to_pickle_each(c) ==
    \/ \E p \in Paths, dialogues \in BatchLists(c) :
           Enter(c, "save_batch_to_pickle", p, FALSE, dialogues)
    \/ At(c, "save_batch_to_pickle", "open") /\ open(c, "w")
    \/ At(c, "save_batch_to_pickle", "body") /\ write(c, dump_each(call[c].arg))
    \/ At(c, "save_batch_to_pickle", "exit") /\ with_exit(c)

save_batch_to_pickle(c) ==
    \/ \E p \in Paths, dialogues \in BatchLists(c) :
           Enter(c, "save_batch_to_pickle", p, FALSE, dialogues)
    \/ At(c, "save_batch_to_pickle", "open") /\ open(c, "w")
    \/ At(c, "save_batch_to_pickle", "body") /\ write(c, pickle_dump(call[c].arg))
    \/ At(c, "save_batch_to_pickle", "exit") /\ with_exit(c)

load_batch_from_pickle(c) ==
    \/ \E p \in Paths : Enter(c, "load_batch_from_pickle", p, FALSE, None)
    \/ At(c, "load_batch_from_pickle", "open") /\ open(c, "r")
    \/ At(c, "load_batch_from_pickle", "body")
         /\ read(c, pickle_load(fs[call[c].path].data))
    \/ At(c, "load_batch_from_pickle", "exit") /\ with_exit(c)

\* a record is constructed from keyword arguments: the record, or ValidationError
Built(c, cls, kwargs, v) ==
    /\ call[c].pc = "idle"
    /\ call' = [call EXCEPT ![c] =
                  [Idle EXCEPT !.op = cls, !.arg = kwargs,
                               !.val = IF IsExc(v) THEN None ELSE v,
                               !.exc = IF IsExc(v) THEN v ELSE None,
                               !.status = IF IsExc(v) THEN "raise" ELSE "ok"]]
    /\ UNCHANGED <<fs, handles, lastSave, callers>>

\* The records are built before the Dialogue is, and the caller keeps the
\* Dialogue it built: that is the record its save methods are called on.
Construct(c) ==
    /\ mem[c].self = None
    /\ \/ \E kw \in RoleKwargs : Built(c, "Role", kw, Role(kw)) /\ UNCHANGED mem
       \/ \E kw \in ScenarioKwargs :
              Built(c, "DialogueScenario", kw, DialogueScenario(kw)) /\ UNCHANGED mem
       \/ \E kw \in DialogueKwargs :
              /\ Built(c, "Dialogue", kw, Dialogue(kw))
              /\ mem' = [mem EXCEPT ![c].self = Dialogue(kw)]

\* files another program left between two calls of the caller: well-formed JSON
\* that is no Dialogue (script is a number), and a pickle stream cut short
ForeignFiles ==
    { dumps(PyDict(<<"script">>, <<PyInt(7)>>), FALSE, 0),
      SubSeq(pickle_dump(PyList(<<>>)).data, 1, 2) }

Place(c) ==
    /\ call[c].pc = "idle"
    /\ \E data \in ForeignFiles :
          fs' = [fs EXCEPT ![GoodPath] = [exists |-> TRUE, data |-> data]]
    /\ lastSave' = [lastSave EXCEPT ![GoodPath] = NoSave]
    /\ call' = [call EXCEPT ![c] = Idle]
    /\ UNCHANGED <<mem, handles, callers>>

(***************************************************************************)
(* Specifications.  Spec: one caller, so calls follow one another.         *)
(* SpecConc: two callers whose saves may overlap on the same path.         *)
(***************************************************************************)
OtherDialogue == Dialogue(DialogueArgs({"script"}, PyList(<<>>)))
ShortDialogue == Dialogue(DialogueArgs({}, PyList(<<>>)))
LongDialogue == Dialogue(DialogueArgs({"conversation"}, PyList(<<Turn1, Turn2>>)))

InitCommon ==
    /\ fs = [p \in Paths |-> NoFile]
    /\ call = [c \in AllCallers |-> Idle]
    /\ handles = [c \in AllCallers |-> 0]
    /\ lastSave = [p \in Paths |-> NoSave]

Init ==
    /\ InitCommon
    /\ callers = {1}
    /\ mem = [c \in AllCallers |->
                IF c = 1 THEN [self |-> None, others |-> {OtherDialogue}]
                ELSE [self |-> None, others |-> {}]]

Next ==
    \/ \E c \in AllCallers : c \in callers /\ save_to_json(c)
    \/ \E c \in AllCallers : c \in callers /\ load_from_json(c)
    \/ \E c \in AllCallers : c \in callers /\ save_to_pickle(c)
    \/ \E c \in AllCallers : c \in callers /\ load_from_pickle(c)
    \/ \E c \in AllCallers : c \in callers /\ save_batch_to_pickle(c)
    \/ \E c \in AllCallers : c \in callers /\ load_batch_from_pickle(c)
    \/ \E c \in AllCallers : c \in callers /\ Construct(c)
    \/ \E c \in AllCallers : c \in callers /\ Place(c)

Spec == Init /\ [][Next]_vars

InitConc ==
    /\ InitCommon
    /\ callers = AllCallers
    /\ mem = [c \in AllCallers |->
                [self |-> IF c = 1 THEN ShortDialogue ELSE LongDialogue, others |-> {}]]

NextConc ==
    \/ \E c \in AllCallers : c \in callers /\ save_to_json(c)
    \/ \E c \in AllCallers : c \in callers /\ save_to_pickle(c)
    \/ \E c \in AllCallers : c \in callers /\ save_batch_to_pickle(c)

SpecConc == InitConc /\ [][NextConc]_vars

(***************************************************************************)
(* Properties.                                                             *)
(***************************************************************************)
Returned(c, op) == call[c].pc = "idle" /\ call[c].op = op /\ call[c].status # "none"
SavedBy(p, op) == lastSave[p].op = op /\ lastSave[p].ok
NullFields(d) == {f \in DialogueFieldNames : Get(d, f) = None}
\* what load op makes of a file's content
Decoded(op, data) ==
    IF op = "load_from_json" THEN from_json("Dialogue", data) ELSE pickle_load(data)
\* the serialization a save writes
Serialization(sv) ==
    IF sv.op = "save_to_json" THEN to_json(sv.arg, sv.pretty) ELSE pickle_dump(sv.arg).data

\* C1: load_from_json of a path last written by save_to_json(d, pretty), pretty or
\* compact, returns a Dialogue equal to d: every field, nested record and list,
\* in the same order.
C1_JsonRoundTrip ==
    \A c \in AllCallers :
        (Returned(c, "load_from_json") /\ SavedBy(call[c].path, "save_to_json"))
        => /\ call[c].status = "ok"
           /\ call[c].val = lastSave[call[c].path].arg

C1_Witness ==
    /\ Returned(1, "load_from_json")
    /\ SavedBy(call[1].path, "save_to_json")
    /\ lastSave[call[1].path].pretty
    /\ call[1].status = "ok"
    /\ Get(call[1].val, "metadata") # None
    /\ Get(call[1].val, "conversation") = PyList(<<ConversationTurn(Turn1), ConversationTurn(Turn2)>>)

\* C2: load_from_pickle of a path last written by save_to_pickle returns an equal
\* Dialogue, and load_batch_from_pickle of a path last written by
\* save_batch_to_pickle(L) returns a list of the length of L, equal to L item by item.
C2_PickleRoundTrip ==
    \A c \in AllCallers :
        /\ (Returned(c, "load_from_pickle") /\ SavedBy(call[c].path, "save_to_pickle"))
           => /\ call[c].status = "ok"
              /\ call[c].val = lastSave[call[c].path].arg
        /\ (Returned(c, "load_batch_from_pickle")
              /\ SavedBy(call[c].path, "save_batch_to_pickle"))
           => LET L == lastSave[call[c].path].arg
              IN  /\ call[c].status = "ok"
                  /\ call[c].val.t = "list"
                  /\ Len(call[c].val.items) = Len(L.items)
                  /\ \A i \in 1..Len(L.items) : call[c].val.items[i] = L.items[i]

C2_Witness ==
    /\ Returned(1, "load_batch_from_pickle")
    /\ SavedBy(call[1].path, "save_batch_to_pickle")
    /\ call[1].status = "ok"
    /\ Len(call[1].val.items) = 2
    /\ call[1].val.items[1] # call[1].val.items[2]
    /\ call[1].val.items[2] = OtherDialogue

\* C3: what load_from_pickle returns is a single Dialogue, also when the path was
\* last written by save_batch_to_pickle; what load_batch_from_pickle returns is a
\* list of Dialogues, also when the path was last written by save_to_pickle.
C3_LoadedTypes ==
    \A c \in AllCallers :
        /\ (Returned(c, "load_from_pickle") /\ call[c].status = "ok")
           => IsInst(call[c].val, "Dialogue")
        /\ (Returned(c, "load_batch_from_pickle") /\ call[c].status = "ok")
           => /\ call[c].val.t = "list"
              /\ \A i \in 1..Len(call[c].val.items) :
                    IsInst(call[c].val.items[i], "Dialogue")

\* C4: a Dialogue is built from any subset of its five fields; the fields not
\* given are null and the fields given are not (with scenario alone, the other
\* four are null); and a Dialogue loaded from JSON has exactly the null fields of
\* the Dialogue that was saved.
C4_NullFields ==
    \A c \in AllCallers :
        /\ Returned(c, "Dialogue")
           => /\ call[c].status = "ok"
              /\ IsInst(call[c].val, "Dialogue")
              /\ \A f \in DialogueFieldNames :
                    (Get(call[c].val, f) = None) <=> ~HasKey(call[c].arg, f)
        /\ (Returned(c, "load_from_json") /\ SavedBy(call[c].path, "save_to_json"))
           => /\ call[c].status = "ok"
              /\ NullFields(call[c].val) = NullFields(lastSave[call[c].path].arg)

C4_Witness ==
    /\ Returned(1, "load_from_json")
    /\ SavedBy(call[1].path, "save_to_json")
    /\ call[1].status = "ok"
    /\ mem[1].self = Dialogue(DialogueArgs({"scenario"}, PyList(<<>>)))
    /\ lastSave[call[1].path].arg = mem[1].self
    /\ NullFields(call[1].val) = DialogueFieldNames \ {"scenario"}

\* keyword arguments that give every field of Role a value of its declared type
RoleWellTyped(kw) ==
    /\ \A i \in 1..Len(RoleKeys) : HasKey(kw, RoleKeys[i])
    /\ \A i \in 1..Len(RoleKeys) :
          LET v == Get(kw, RoleKeys[i])
          IN  CASE RoleKeys[i] = "age" -> v.t = "int"
                [] RoleKeys[i] = "personality_traits" ->
                      v.t = "list" /\ \A j \in 1..Len(v.items) : v.items[j].t = "str"
                [] OTHER -> v.t = "str"

\* C5: Role without age, or with age "thirty", raises ValidationError and yields
\* no Role; Role with all eight fields of the declared types yields a Role.
C5_RoleValidation ==
    \A c \in AllCallers :
        Returned(c, "Role")
        => /\ (~HasKey(call[c].arg, "age") \/ Get(call[c].arg, "age") = PyStr("thirty"))
              => /\ call[c].status = "raise"
                 /\ call[c].exc.s = "ValidationError"
                 /\ call[c].val = None
           /\ RoleWellTyped(call[c].arg)
              => /\ call[c].status = "ok"
                 /\ IsInst(call[c].val, "Role")
                 /\ Get(call[c].val, "age") = Get(call[c].arg, "age")

C5_Witness ==
    /\ Returned(1, "Role")
    /\ HasKey(call[1].arg, "age")
    /\ Get(call[1].arg, "age") = PyStr("thirty")
    /\ call[1].status = "raise"

\* C6: DialogueScenario built from the four required strings has dialogue_language
\* "English" when none is given and custom_prompt "" (not null) when none is
\* given; a value given for either field is kept.
C6_ScenarioDefaults ==
    \A c \in AllCallers :
        (Returned(c, "DialogueScenario")
           /\ \A i \in 1..Len(ScenarioKeys) : HasKey(call[c].arg, ScenarioKeys[i])
           /\ (HasKey(call[c].arg, "dialogue_language")
                 => Get(call[c].arg, "dialogue_language").t = "str"))
        => /\ call[c].status = "ok"
           /\ Get(call[c].val, "dialogue_language") =
                 IF HasKey(call[c].arg, "dialogue_language")
                 THEN Get(call[c].arg, "dialogue_language") ELSE PyStr("English")
           /\ Get(call[c].val, "custom_prompt") =
                 IF HasKey(call[c].arg, "custom_prompt")
                 THEN Get(call[c].arg, "custom_prompt") ELSE PyStr("")

C6_Witness ==
    /\ Returned(1, "DialogueScenario")
    /\ call[1].arg = ScenarioArgs
    /\ call[1].status = "ok"
    /\ Get(call[1].val, "custom_prompt") = PyStr("")
    /\ Get(call[1].val, "dialogue_language") = PyStr("English")

\* C7: every name in the exclusion list of DialogueScenario's presentation hint is
\* a declared field of DialogueScenario, and the list covers dialogue_language and
\* custom_prompt.
C7_ExcludeHint ==
    \A c \in AllCallers :
        (Returned(c, "DialogueScenario") /\ call[c].status = "ok")
        => /\ \A i \in 1..Len(DialogueScenarioExclude) :
                 HasKey(call[c].val, DialogueScenarioExclude[i])
           /\ \A f \in {"dialogue_language", "custom_prompt"} :
                 \E i \in 1..Len(DialogueScenarioExclude) : DialogueScenarioExclude[i] = f

\* C8: a save or load that fails raises to the caller after one attempt: a load
\* returns a value only if the file exists and decodes, a save returns normally
\* only if the path is writable and the value serializes; a raised call made one
\* open attempt and returned nothing; the Dialogues of a caller whose save raised
\* are the ones it passed.
C8_ErrorsPropagate ==
    \A c \in AllCallers :
        (call[c].pc = "idle" /\ call[c].op \in SaveOps \cup LoadOps)
        => /\ call[c].att = 1
           /\ call[c].exc # None => (call[c].status = "raise" /\ call[c].val = None)
           /\ (call[c].op \in LoadOps /\ call[c].status = "ok")
              => /\ fs[call[c].path].exists
                 /\ call[c].val = Decoded(call[c].op, fs[call[c].path].data)
                 /\ ~IsExc(call[c].val)
           /\ (call[c].op \in SaveOps /\ call[c].status = "ok")
              => Writable(call[c].path) /\ Picklable(call[c].arg)
           /\ (call[c].op \in SaveOps /\ call[c].status = "raise")
              => IF call[c].op = "save_batch_to_pickle"
                 THEN \A i \in 1..Len(call[c].arg.items) :
                         call[c].arg.items[i] \in Held(c) \cup {Func}
                 ELSE call[c].arg = mem[c].self

C8_Witness ==
    /\ Returned(1, "load_from_json")
    /\ call[1].status = "raise"
    /\ call[1].exc.s = "ValidationError"
    /\ fs[call[1].path].exists

\* C9 as stated: once two callers' saves to one path have both returned, the file
\* holds exactly the complete serialization of the caller that wrote last.
BothSaved(p) ==
    \A c \in AllCallers :
        /\ call[c].pc = "idle" /\ call[c].op \in SaveOps
        /\ call[c].status = "ok" /\ call[c].path = p

C9_LastWriterWins ==
    \A p \in Paths :
        BothSaved(p) => fs[p].data = Serialization(lastSave[p])

\* C9 as amended: when the two saves do not overlap (the later one opens the file
\* after the earlier one closed it), the file holds exactly the complete
\* serialization of the later one.
C9_LastWriterWinsApart ==
    \A p \in Paths :
        (BothSaved(p) /\ ~lastSave[p].ov) => fs[p].data = Serialization(lastSave[p])

C9_Witness ==
    /\ BothSaved(GoodPath)
    /\ ~lastSave[GoodPath].ov
    /\ lastSave[GoodPath].by = 1
    /\ call[1].op = "save_to_pickle"
    /\ call[2].op = "save_to_json"
    /\ Len(Serialization(lastSave[GoodPath])) < Len(to_json(mem[2].self, FALSE))

\* C10: a call holds at most one file handle, holds one only inside its
\* with-block, and holds none once it has returned or raised.
C10_HandlesClosed ==
    \A c \in AllCallers :
        /\ handles[c] \in {0, 1}
        /\ handles[c] = 1 <=> call[c].pc \in {"body", "exit"}
        /\ call[c].pc = "idle" => handles[c] = 0

C10_Witness ==
    /\ call[1].pc = "idle"
    /\ call[1].op = "save_batch_to_pickle"
    /\ call[1].status = "raise"
    /\ call[1].exc.s = "PicklingError"
    /\ handles[1] = 0

====
